---- MODULE Spec2Model ----
(***************************************************************************)
(* Policy-gated request orchestration: the planning gate (router.py and    *)
(* the orchestrator node of graph.py), the execution gate (tools.py), the  *)
(* bounded action loop (graph.py) and the audit log (Audit.py).            *)
(*                                                                         *)
(* Text values are TLA+ strings; Python's None is the reserved value None. *)
(* user_id is carried to the audit payload only and is left out.  The      *)
(* audit payload keeps the fields that identify a record.                  *)
(***************************************************************************)
EXTENDS Integers, Sequences, FiniteSets, TLC

\* ---------------------------------------------------------------- bounds

\* the rule table of the policy evaluator holds at most MaxRules rules
MaxRules == 1
\* the audit log holds at most MaxAudit records
MaxAudit == 2
\* the iteration budgets of the action loop are 0..MaxToolLoops
MaxToolLoops == 2
\* a proposer response carries at most MaxToolCalls tool calls
MaxToolCalls == 2
\* a prompt handed to classify_intent has at most MaxPromptLen tokens
MaxPromptLen == 3
\* tail_events is asked for 0..MaxLimit records
MaxLimit == 3

\* -------------------------------------------------------------- universe

None == "<None>"

Roles == {"employee", "it_admin"}

Intents == {"informational", "operational", "privileged", "ambiguous"}

RiskTiers == {"low", "medium", "high"}

Routes == {"knowledge_agent", "action_agent", "human_service_desk"}

\* the two tool implementations of tools.py and one name that has none
RegisteredTools == {"get_kb_article", "reset_password"}

ToolNames == RegisteredTools \cup {"delete_user"}

\* args is a one-entry mapping; ArgKeys are the keyword it carries
ArgKeys == {"query", "username"}

\* ticket_id as the caller supplies it: absent, empty, or a reference
TicketIds == {None, "", "T-100"}

\* Python truthiness of an optional string
Truthy(s) == s # None /\ s # ""

\* `x or None`
OrNone(s) == IF Truthy(s) THEN s ELSE None

\* ------------------------------------------------------- policy evaluator

RouteObj(intent) == "route:intent:" \o intent

ToolObj(tool_name) == "tool:" \o tool_name

Rules ==
    (Roles \X {RouteObj(i) : i \in Intents} \X {"allow"})
        \cup (Roles \X {ToolObj(t) : t \in ToolNames} \X {"execute"})

RuleTables == {p \in SUBSET Rules : Cardinality(p) <= MaxRules}

\* enforcer.enforce(role, obj, act) over the rule table pol
Enforce(pol, role, obj, act) == <<role, obj, act>> \in pol

\* ------------------------------------------------------------- schemas.py

RoutingDecisionFields ==
    {"intent", "risk_tier", "route_to", "required_prereqs", "recommended_tools",
     "explanation", "confidence", "policy_check"}

ActionResultFields == {"executed", "tool", "args", "decision", "reason", "output"}

\* a model with extra = "forbid": a keyword that is no field is rejected
\* (ok: the object is built; otherwise the constructor raises ValidationError)
Validate(fields, kwargs) == [ok |-> DOMAIN kwargs \subseteq fields, value |-> kwargs]

\* no RoutingDecision (None where one is expected)
NoRouting == [intent |-> None, route_to |-> None]

\* no ActionResult (None where one is expected)
NoResult == [tool |-> None, decision |-> None]

RoutingDecision(kwargs) == Validate(RoutingDecisionFields, kwargs)

ActionResult(executed, tool, args, decision, reason, output) ==
    [executed |-> executed, tool |-> tool, args |-> args, decision |-> decision,
     reason |-> reason, output |-> output]

\* --------------------------------------------------------------- Audit.py

\* the record put in front of the log instead of at its end
LogEvent_Prepend(log, event_type, payload) ==
    <<[event_type |-> event_type, payload |-> payload]>> \o log

\* log_event: the record appended to the log (event_id and ts_epoch are
\* fresh per record and carry no other information)
LogEvent(log, event_type, payload) ==
    Append(log, [event_type |-> event_type, payload |-> payload])

\* str(e) of the OSError that open or write raise when the log cannot be
\* appended to
WriteError == "OSError: audit_log.jsonl cannot be written"

\* log_event on a log that may refuse the write (ok: the record is appended;
\* otherwise the OSError leaves log_event and the log is as before)
LogEventIO(log, ok, event_type, payload) ==
    IF ok THEN [log |-> LogEvent(log, event_type, payload), raised |-> None]
    ELSE [log |-> log, raised |-> WriteError]

\* lines[a:] of Python for a list of L lines: a negative a counts from the end
SliceFrom(lines, a) ==
    LET L == Len(lines)
        start == IF a < 0 THEN (IF L + a > 0 THEN L + a ELSE 0)
                 ELSE (IF a < L THEN a ELSE L)
    IN  SubSeq(lines, start + 1, L)

\* tail_events(limit): readlines()[-limit:], and [] when there is no file
TailEvents(exists, log, limit) ==
    IF ~exists THEN <<>> ELSE SliceFrom(log, 0 - limit)

\* --------------------------------------------------------------- tools.py

\* {**r, **s}
Merge(r, s) ==
    [k \in DOMAIN r \cup DOMAIN s |-> IF k \in DOMAIN s THEN s[k] ELSE r[k]]

\* the keyword each tool implementation takes
ToolParam(tool_name) == IF tool_name = "get_kb_article" THEN "query" ELSE "username"

get_kb_article(query) ==
    "KB Article Results for '" \o query
        \o "':\n- VPN Setup Guide\n- MFA Troubleshooting\n- Remote Access Policy"

reset_password(username) ==
    "Password reset initiated for user '" \o username \o "'. (Mock execution)"

\* tool(**args): a keyword the implementation does not take is a TypeError
CallTool(tool_name, args) ==
    IF DOMAIN args # {ToolParam(tool_name)}
    THEN [raised |-> TRUE, value |-> "TypeError: unexpected keyword argument"]
    ELSE [raised |-> FALSE,
          value |-> IF tool_name = "get_kb_article"
                    THEN get_kb_article(args["query"])
                    ELSE reset_password(args["username"])]

\* a name with no implementation taken for a fault
Dispatch_UnknownRaises(tool_name, args) ==
    IF tool_name \in RegisteredTools
    THEN [invoked |-> <<tool_name>>] @@ CallTool(tool_name, args)
    ELSE [invoked |-> <<>>, raised |-> TRUE,
          value |-> "Unknown tool '" \o tool_name \o "'."]

\* lines 52-57: dispatch by name; a name with no implementation yields a string
Dispatch(tool_name, args) ==
    IF tool_name \in RegisteredTools
    THEN [invoked |-> <<tool_name>>] @@ CallTool(tool_name, args)
    ELSE [invoked |-> <<>>, raised |-> FALSE,
          value |-> "Unknown tool '" \o tool_name \o "'."]

\* the gate left open: the verdict is not consulted
GateAllowed_Open(pol, role, tool_name) == TRUE

\* lines 24-27: the execution gate's own query of the evaluator
GateAllowed(pol, role, tool_name) == Enforce(pol, role, ToolObj(tool_name), "execute")

\* no except clause: the fault of the tool leaves the call
ToolFailed_Propagates(log, base_log, tool_name, args, e) ==
    [log |-> log, raised |-> e, result |-> NoResult]

\* lines 69-78: a fault of the tool is caught, logged and turned into a result
ToolFailed(log, base_log, tool_name, args, e) ==
    [log |-> LogEvent(log, "tool_execution",
                      Merge(base_log, [decision |-> "allow", error |-> e])),
     raised |-> None,
     result |-> ActionResult(FALSE, tool_name, args, "allow",
                             "Tool execution failed: " \o e, None)]

\* lines 40-48: the deny branch
ToolDenied(log, base_log, tool_name, args) ==
    [log |-> LogEvent(log, "tool_execution", Merge(base_log, [decision |-> "deny"])),
     invoked |-> <<>>,
     raised |-> None,
     result |-> ActionResult(FALSE, tool_name, args, "deny",
                             "Policy denied tool execution.", None)]

\* execute_tool_with_policy: the log after the call, the tool implementations
\* it invoked, the exception it raised (None: it returned) and its result.
\* output_summary is output[:200]; every output here is shorter than that.
\* The payload keeps role, tool, allowed, decision and output_summary or error;
\* its other entries (user_id, args, policy_obj, policy_act, request_context)
\* are copies of the arguments.
ExecuteToolWithPolicy(pol, log, role, tool_name, args) ==
    LET allowed == GateAllowed(pol, role, tool_name)
        base_log == [role |-> role, tool |-> tool_name, allowed |-> allowed]
        d == Dispatch(tool_name, args)
    IN  IF ~allowed
        THEN ToolDenied(log, base_log, tool_name, args)
        ELSE IF d.raised
        THEN [invoked |-> d.invoked] @@ ToolFailed(log, base_log, tool_name, args, d.value)
        ELSE [log |-> LogEvent(log, "tool_execution",
                               Merge(base_log, [decision |-> "allow",
                                                output_summary |-> d.value])),
              invoked |-> d.invoked,
              raised |-> None,
              result |-> ActionResult(TRUE, tool_name, args, "allow",
                                      "Policy allowed tool execution.", d.value)]

\* whether the first and the second log_event call of one
\* execute_tool_with_policy call get their record written
WriteOutcomes == [1..2 -> BOOLEAN]

\* execute_tool_with_policy on a log that may refuse writes.  ran: the tool
\* implementation returned its output.  A log_event that raises in the deny
\* branch (line 41) or in the except branch (line 70) leaves the call; one that
\* raises inside the try block (line 59) is caught at line 69 like a fault of
\* the tool.
ExecuteToolWithPolicyIO(pol, log, role, tool_name, args, io) ==
    LET allowed == GateAllowed(pol, role, tool_name)
        base_log == [role |-> role, tool |-> tool_name, allowed |-> allowed]
        d == Dispatch(tool_name, args)
        Raise(e, inv, ran) ==
            [log |-> log, invoked |-> inv, ran |-> ran, raised |-> e, result |-> NoResult]
        Except(e, k, ran) ==
            LET w == LogEventIO(log, io[k], "tool_execution",
                                Merge(base_log, [decision |-> "allow", error |-> e]))
            IN  IF w.raised # None THEN Raise(w.raised, d.invoked, ran)
                ELSE [log |-> w.log, invoked |-> d.invoked, ran |-> ran, raised |-> None,
                      result |-> ActionResult(FALSE, tool_name, args, "allow",
                                              "Tool execution failed: " \o e, None)]
    IN  IF ~allowed
        THEN LET w == LogEventIO(log, io[1], "tool_execution",
                                 Merge(base_log, [decision |-> "deny"]))
             IN  IF w.raised # None THEN Raise(w.raised, <<>>, FALSE)
                 ELSE [log |-> w.log, invoked |-> <<>>, ran |-> FALSE, raised |-> None,
                       result |-> ActionResult(FALSE, tool_name, args, "deny",
                                               "Policy denied tool execution.", None)]
        ELSE IF d.raised
        THEN Except(d.value, 1, FALSE)
        ELSE LET ran == d.invoked # <<>>
                 w == LogEventIO(log, io[1], "tool_execution",
                                 Merge(base_log, [decision |-> "allow",
                                                  output_summary |-> d.value]))
             IN  IF w.raised # None THEN Except(w.raised, 2, ran)
                 ELSE [log |-> w.log, invoked |-> d.invoked, ran |-> ran, raised |-> None,
                       result |-> ActionResult(TRUE, tool_name, args, "allow",
                                               "Policy allowed tool execution.", d.value)]

\* -------------------------------------------------------------- router.py

\* a line break inside a prompt
NL == "\n"

\* a prompt is its tokens in order: words, one blank between neighbours, and
\* line breaks
Words ==
    {"Reset", "password", "guide", "create", "admin", "hello", "How", "do", "i", NL}

\* str.lower on one token
Lower(w) ==
    CASE w = "Reset" -> "reset"
      [] w = "How" -> "how"
      [] OTHER -> w

\* str.strip on a token sequence: the line breaks at either end go
Strip(p) ==
    LET kept == {i \in 1..Len(p) : p[i] # NL}
    IN  IF kept = {} THEN <<>>
        ELSE SubSeq(p, CHOOSE i \in kept : \A j \in kept : i <= j,
                       CHOOSE i \in kept : \A j \in kept : i >= j)

\* prompt.lower().strip()
Normalise(prompt) == Strip([i \in 1..Len(prompt) |-> Lower(prompt[i])])

\* re.search(r"\ba\b.*\bb\b", p): `.` matches no line break
MatchesInOrder(p, a, b) ==
    \E i \in 1..Len(p) : \E j \in 1..Len(p) :
        /\ i < j /\ p[i] = a /\ p[j] = b
        /\ \A k \in (i + 1)..(j - 1) : p[k] # NL

\* re.search(r"\bw\b", p)
MatchesWord(p, w) == \E i \in 1..Len(p) : p[i] = w

\* re.search(r"\bw1 w2 ...\b", p): the words of ptn side by side
MatchesPhrase(p, ptn) ==
    \E i \in 1..Len(p) :
        /\ i + Len(ptn) - 1 <= Len(p)
        /\ \A k \in 1..Len(ptn) : p[i + k - 1] = ptn[k]

PRIVILEGED_PATTERNS ==
    {<<"reset", "password">>, <<"grant", "access">>, <<"disable", "account">>,
     <<"elevate", "privilege">>, <<"create", "admin">>}

INFO_PATTERNS ==
    {<<"how", "do", "i">>, <<"instructions">>, <<"policy">>, <<"guide">>,
     <<"documentation">>, <<"what", "is">>, <<"where", "can", "i">>}

OPERATIONAL_WORDS == {"create", "update", "change", "request", "provision", "run"}

\* the pattern groups tried in another order: informational first
classify_intent_InfoFirst(prompt) ==
    LET p == Normalise(prompt)
    IN  IF \E ptn \in INFO_PATTERNS : MatchesPhrase(p, ptn)
        THEN "informational"
        ELSE IF \E ptn \in PRIVILEGED_PATTERNS : MatchesInOrder(p, ptn[1], ptn[2])
        THEN "privileged"
        ELSE IF \E w \in OPERATIONAL_WORDS : MatchesWord(p, w)
        THEN "operational"
        ELSE "ambiguous"

\* lines 23-32
classify_intent(prompt) ==
    LET p == Normalise(prompt)
    IN  IF \E ptn \in PRIVILEGED_PATTERNS : MatchesInOrder(p, ptn[1], ptn[2])
        THEN "privileged"
        ELSE IF \E ptn \in INFO_PATTERNS : MatchesPhrase(p, ptn)
        THEN "informational"
        ELSE IF \E w \in OPERATIONAL_WORDS : MatchesWord(p, w)
        THEN "operational"
        ELSE "ambiguous"

risk_from_intent(intent) ==
    CASE intent = "informational" -> "low"
      [] intent = "operational" -> "medium"
      [] intent = "privileged" -> "high"
      [] intent = "ambiguous" -> "medium"

\* lines 56-59: the planning gate's own query of the evaluator
PlanAllowed(pol, role, intent) == Enforce(pol, role, RouteObj(intent), "allow")

\* lines 61-98: required, route_to, explanation and recommended_tools
RouteLocals(intent, allowed, ticket_id) ==
    LET required == IF intent = "privileged" /\ ~Truthy(ticket_id)
                    THEN <<"ticket_id">> ELSE <<>>
    IN  CASE intent = "privileged" /\ ~allowed ->
               [required |-> required, route_to |-> "human_service_desk",
                recommended_tools |-> "restricted_tools",
                explanation |-> "Privileged request detected. Policy does not permit this role."]
          [] intent = "privileged" /\ allowed /\ required # <<>> ->
               [required |-> required, route_to |-> "human_service_desk",
                recommended_tools |-> "restricted_tools",
                explanation |-> "Privileged request detected. Role permitted, but prerequisites missing."]
          [] intent = "privileged" /\ allowed /\ required = <<>> ->
               [required |-> required, route_to |-> "action_agent",
                recommended_tools |-> "restricted_tools",
                explanation |-> "Privileged request detected. Role permitted and prerequisites satisfied."]
          [] intent = "operational" /\ ~allowed ->
               [required |-> required, route_to |-> "human_service_desk",
                recommended_tools |-> "safe_tools",
                explanation |-> "Operational request detected. Policy does not permit automated handling."]
          [] intent = "operational" /\ allowed ->
               [required |-> required, route_to |-> "action_agent",
                recommended_tools |-> "safe_tools",
                explanation |-> "Operational request detected. Role permitted."]
          [] intent = "informational" ->
               [required |-> required, route_to |-> "knowledge_agent",
                recommended_tools |-> "safe_tools",
                explanation |-> "Informational request detected."]
          [] OTHER ->
               [required |-> required, route_to |-> "knowledge_agent",
                recommended_tools |-> "safe_tools",
                explanation |-> "Intent ambiguous."]

\* lines 100-115: the keywords handed to RoutingDecision(...)
RouteKwargs(intent, allowed, role, l) ==
    [intent |-> intent, risk_tier |-> risk_from_intent(intent), route_to |-> l.route_to,
     required_prereqs |-> l.required, recommended_tools |-> l.recommended_tools,
     explanation |-> l.explanation,
     confidence |-> IF intent \in {"informational", "privileged"} THEN "0.85" ELSE "0.65",
     notes |-> IF intent # "ambiguous" THEN None ELSE "Ask for target system.",
     policy_check |-> [policy_obj |-> RouteObj(intent), policy_act |-> "allow",
                       allowed |-> allowed, role |-> role]]

\* orchestrate_route: the log after the call, the exception raised (None: it
\* returned) and the decision returned.  The constructor runs before log_event.
OrchestrateRoute(pol, log, role, prompt, ticket_id) ==
    LET intent == classify_intent(prompt)
        allowed == PlanAllowed(pol, role, intent)
        l == RouteLocals(intent, allowed, ticket_id)
        decision == RoutingDecision(RouteKwargs(intent, allowed, role, l))
    IN  IF ~decision.ok
        THEN [log |-> log, raised |-> "ValidationError", result |-> NoRouting]
        ELSE [log |-> LogEvent(log, "routing_decision",
                               [role |-> role, ticket_id |-> ticket_id, intent |-> intent,
                                route_to |-> l.route_to, required_prereqs |-> l.required,
                                allowed |-> allowed]),
              raised |-> None,
              result |-> decision.value]

\* --------------------------------------------------------------- graph.py

\* the prerequisite lists a proposer suggests
ProposedPrereqs == {<<>>, <<"ticket_id">>, <<"manager_approval">>}

\* the policy_check a proposer makes up
ProposedChecks ==
    {[policy_obj |-> "route:intent:informational", policy_act |-> "allow",
      allowed |-> b, role |-> "it_admin"] : b \in BOOLEAN}

\* llm.invoke(...) of the orchestrator: any well-formed RoutingDecision
Drafts ==
    [intent : Intents, risk_tier : RiskTiers, route_to : Routes,
     required_prereqs : ProposedPrereqs, recommended_tools : {"safe_tools"},
     explanation : {"(proposed)"}, confidence : {"0.9"}, policy_check : ProposedChecks]

Elems(seq) == {seq[i] : i \in 1..Len(seq)}

\* lines 98-100: the planning gate's own query of the evaluator
NodeAllowed(pol, role, proposed) == Enforce(pol, role, RouteObj(proposed.intent), "allow")

\* ticket_id forced in for every privileged request, ticket or not
NodeRequired_IgnoresTicket(proposed, ticket_id) ==
    IF proposed.intent = "privileged"
           /\ "ticket_id" \notin Elems(proposed.required_prereqs)
    THEN Append(proposed.required_prereqs, "ticket_id")
    ELSE proposed.required_prereqs

\* lines 103-105: the proposed prerequisites, ticket_id forced in
NodeRequired(proposed, ticket_id) ==
    IF proposed.intent = "privileged" /\ ~Truthy(ticket_id)
           /\ "ticket_id" \notin Elems(proposed.required_prereqs)
    THEN Append(proposed.required_prereqs, "ticket_id")
    ELSE proposed.required_prereqs

\* the informational branch without its assignment: the proposed route stays
InformationalRoute_Proposed(proposed) == proposed.route_to

\* lines 129-130: the route of an informational request
InformationalRoute(proposed) == "knowledge_agent"

\* lines 108-134: route_to and explanation
NodeRoute(proposed, allowed, required) ==
    CASE proposed.intent = "privileged" /\ ~allowed ->
           [route_to |-> "human_service_desk",
            explanation |-> "Privileged request: policy does not allow automated routing for this role."]
      [] proposed.intent = "privileged" /\ allowed /\ required # <<>> ->
           [route_to |-> "human_service_desk",
            explanation |-> "Privileged request: prerequisites required before automation."]
      [] proposed.intent = "privileged" /\ allowed /\ required = <<>> ->
           [route_to |-> "action_agent", explanation |-> proposed.explanation]
      [] proposed.intent = "operational" /\ ~allowed ->
           [route_to |-> "human_service_desk",
            explanation |-> "Operational request: policy does not allow automated routing for this role."]
      [] proposed.intent = "operational" /\ allowed ->
           [route_to |-> "action_agent", explanation |-> proposed.explanation]
      [] proposed.intent = "informational" ->
           [route_to |-> InformationalRoute(proposed), explanation |-> proposed.explanation]
      [] OTHER ->
           [route_to |-> "knowledge_agent",
            explanation |-> "Intent ambiguous. Start with clarification."]

\* lines 138-152: the final decision built from the draft and the gate
NodeFinal(proposed, allowed, role, required, r) ==
    RoutingDecision(
        [intent |-> proposed.intent, risk_tier |-> proposed.risk_tier,
         route_to |-> r.route_to, required_prereqs |-> required,
         recommended_tools |-> proposed.recommended_tools,
         explanation |-> r.explanation, confidence |-> proposed.confidence,
         policy_check |-> [policy_obj |-> RouteObj(proposed.intent), policy_act |-> "allow",
                           allowed |-> allowed, role |-> role]])

\* orchestrator_node._node: the log after the node, the exception raised
\* (None: it returned) and the routing it puts into the state
OrchestratorNode(pol, log, role, ticket, proposed) ==
    LET ticket_id == OrNone(ticket)
        allowed == NodeAllowed(pol, role, proposed)
        required == NodeRequired(proposed, ticket_id)
        final == NodeFinal(proposed, allowed, role, required,
                           NodeRoute(proposed, allowed, required))
    IN  IF ~final.ok
        THEN [log |-> log, raised |-> "ValidationError", routing |-> NoRouting]
        ELSE [log |-> LogEvent(log, "routing_decision",
                               [role |-> role, ticket_id |-> ticket_id,
                                routing |-> final.value]),
              raised |-> None,
              routing |-> final.value]

\* an unconditional edge from the orchestrator to the action agent
NextNode_Always(routing) == "action_agent"

\* should_run_action_agent and the edges of build_graph
NextNode(routing) ==
    IF routing # NoRouting /\ routing.route_to = "action_agent" THEN "action_agent" ELSE "END"

\* build_tools: the policy-gated wrapper of one tool; out is what it returns
ToolWrapper(pol, log, role, tool_name, value) ==
    LET r == ExecuteToolWithPolicy(pol, log, role, tool_name, ToolParam(tool_name) :> value)
    IN  [gate |-> r,
         out |-> IF r.result.decision = "deny"
                 THEN "DENIED: " \o r.result.reason
                 ELSE IF Truthy(r.result.output) THEN r.result.output ELSE ""]

\* the wrapper on a log that may refuse writes: an exception of the gate
\* leaves the wrapper
ToolWrapperIO(pol, log, role, tool_name, value, io) ==
    LET r == ExecuteToolWithPolicyIO(pol, log, role, tool_name,
                                     ToolParam(tool_name) :> value, io)
    IN  [gate |-> r,
         out |-> IF r.raised # None THEN None
                 ELSE IF r.result.decision = "deny"
                 THEN "DENIED: " \o r.result.reason
                 ELSE IF Truthy(r.result.output) THEN r.result.output ELSE ""]

\* the reason strings of the execution gate's deny
DenyReasons == {"Policy denied tool execution."}

\* out.startswith("DENIED:")
StartsWithDenied(out) == \E r \in DenyReasons : out = "DENIED: " \o r

\* out.replace("DENIED:", "").strip()
StripDenied(out) == CHOOSE r \in DenyReasons : out = "DENIED: " \o r

\* lines 197-202: the locals of the action loop before its first iteration
LoopStart ==
    [i |-> 0, broke |-> FALSE, last_tool_used |-> "", last_args |-> <<>>,
     last_output |-> "", decision |-> "deny", reason |-> "No tool executed."]

\* the loop without its trailing break
BreakAfterToolCall_Missing == FALSE

\* line 235: the loop is left once a tool call has completed
BreakAfterToolCall == TRUE

\* the summary without the conversions of the empty locals
Summarise_Raw(l) ==
    ActionResult(l.decision = "allow", l.last_tool_used, l.last_args, l.decision,
                 l.reason, l.last_output)

\* lines 237-244: the result summarised from the locals
Summarise(l) ==
    ActionResult(l.decision = "allow",
                 IF l.last_tool_used # "" THEN l.last_tool_used ELSE "none",
                 l.last_args, l.decision, l.reason,
                 IF l.last_output # "" THEN l.last_output ELSE None)

\* ------------------------------------------------------------------ state

VARIABLES
    policy,          \* the rule table behind enforcer
    audit,           \* audit_log.jsonl, oldest record first
    last,            \* the most recent gate call: its inputs and what it did
    max_tool_loops,  \* the budget the action-agent node was built with
    pc,              \* the node the compiled graph is at
    state,           \* DemoState of the request in the graph
    loop,            \* the locals of the action loop
    twin             \* one request decided on two drafts, side by side

vars == <<policy, audit, last, max_tool_loops, pc, state, loop, twin>>

graphVars == <<max_tool_loops, pc, state, loop>>

\* action_agent_node(..., max_tool_loops: int = 2)
DefaultToolLoops == 2

NoCall == [fn |-> None]

NoState == [role |-> None]

NoTwin == [role |-> None]

\* what a call of execute_tool_with_policy is remembered by
ExecCall(caller, role, tool_name, args, r) ==
    [fn |-> "execute_tool_with_policy", caller |-> caller, role |-> role,
     tool |-> tool_name, args |-> args,
     verdict |-> Enforce(policy, role, ToolObj(tool_name), "execute"),
     pre |-> Len(audit), invoked |-> r.invoked, raised |-> r.raised,
     result |-> r.result]

\* what a call of orchestrate_route is remembered by
RouteCall(role, prompt, ticket_id, r) ==
    [fn |-> "orchestrate_route", intent |-> classify_intent(prompt),
     ticket_id |-> ticket_id,
     verdict |-> Enforce(policy, role, RouteObj(classify_intent(prompt)), "allow"),
     pre |-> Len(audit), raised |-> r.raised, result |-> r.result]

InitCommon ==
    /\ policy \in RuleTables
    /\ audit = <<>>
    /\ last = NoCall
    /\ pc = "idle"
    /\ state = NoState
    /\ loop = LoopStart
    /\ twin = NoTwin

\* the rule table is reloaded with one rule more or one rule less
SetPolicy ==
    /\ \E r \in Rules :
          \/ r \in policy /\ policy' = policy \ {r}
          \/ r \notin policy /\ Cardinality(policy) < MaxRules /\ policy' = policy \cup {r}
    /\ UNCHANGED <<audit, last, graphVars, twin>>

\* ----------------------------------------------------------------- app.py

InitApp == InitCommon /\ max_tool_loops = DefaultToolLoops

\* the requests typed into the router tab
Prompts ==
    {<<"Reset", "password">>, <<"create", "admin", "guide">>, <<"create", "guide">>,
     <<"create">>, <<"password", "Reset">>}

\* app.py lines 41-48: the router tab; ticket_id.strip() or None
AppRouteRequest ==
    /\ \E role \in Roles, prompt \in Prompts, t \in TicketIds \ {None} :
          LET r == OrchestrateRoute(policy, audit, role, prompt, OrNone(t))
          IN  /\ Len(r.log) <= MaxAudit
              /\ audit' = r.log
              /\ last' = RouteCall(role, prompt, OrNone(t), r)
    /\ UNCHANGED <<policy, graphVars, twin>>

\* app.py lines 72-99: the execution-gate tab
AppExecuteTool ==
    /\ Len(audit) < MaxAudit
    /\ \E role \in Roles, tool_name \in ToolNames, k \in ArgKeys :
          LET args == (k :> (IF k = "query" THEN "VPN setup" ELSE "john"))
              r == ExecuteToolWithPolicy(policy, audit, role, tool_name, args)
          IN  /\ audit' = r.log
              /\ last' = ExecCall("app", role, tool_name, args, r)
    /\ UNCHANGED <<policy, graphVars, twin>>

\* the router tab in use while the rule table changes
NextRouter ==
    \/ SetPolicy
    \/ AppRouteRequest

SpecRouter == InitApp /\ [][NextRouter]_vars

\* the execution-gate tab in use while the rule table changes
NextGate ==
    \/ SetPolicy
    \/ AppExecuteTool

SpecGate == InitApp /\ [][NextGate]_vars

\* ------------------------------------------------- the audit log viewer

\* app.py line 114: tail_events(limit); the file is there once a record was
\* appended, and may or may not be there before
AppTailEvents ==
    /\ \E limit \in 0..MaxLimit, exists \in BOOLEAN :
          /\ audit # <<>> => exists
          /\ last' = [fn |-> "tail_events", limit |-> limit, exists |-> exists,
                      events |-> TailEvents(exists, audit, limit)]
    /\ UNCHANGED <<policy, audit, graphVars, twin>>

\* the execution-gate tab filling the log, the viewer reading it
NextViewer ==
    \/ AppExecuteTool
    \/ AppTailEvents

SpecViewer == InitApp /\ [][NextViewer]_vars

\* ------------------------------------- orchestrate_route called twice over

\* orchestrate_route called twice with the same arguments, the rule table
\* staying as it is
RouteTwice ==
    /\ twin = NoTwin
    /\ \E role \in Roles, prompt \in Prompts, ticket_id \in {None, "T-100"} :
          LET a == OrchestrateRoute(policy, audit, role, prompt, ticket_id)
              b == OrchestrateRoute(policy, a.log, role, prompt, ticket_id)
          IN  /\ Len(b.log) <= MaxAudit
              /\ audit' = b.log
              /\ twin' = [fn |-> "orchestrate_route", role |-> role, prompt |-> prompt,
                          ticket_id |-> ticket_id, pre |-> Len(audit),
                          a |-> [raised |-> a.raised, result |-> a.result],
                          b |-> [raised |-> b.raised, result |-> b.result]]
    /\ UNCHANGED <<policy, last, graphVars>>

NextRouteTwice == RouteTwice

SpecRouteTwice == InitApp /\ [][NextRouteTwice]_vars

\* ------------------------------------------------ classify_intent on its own

\* every prompt of at most MaxPromptLen tokens
PromptTexts == UNION {[1..n -> Words] : n \in 0..MaxPromptLen}

InitClassify == InitApp /\ policy = {}

\* classify_intent(prompt), called once
Classify ==
    /\ last = NoCall
    /\ \E prompt \in PromptTexts :
          last' = [fn |-> "classify_intent", prompt |-> prompt,
                   intent |-> classify_intent(prompt)]
    /\ UNCHANGED <<policy, audit, graphVars, twin>>

NextClassify == Classify

SpecClassify == InitClassify /\ [][NextClassify]_vars

\* ------------------------------------------------------- the compiled graph

Init == InitCommon /\ max_tool_loops \in 0..MaxToolLoops

\* the messages of the action agent's conversation
HumanMessage == [type |-> "human"]

AIMessage(tool_calls) == [type |-> "ai", tool_calls |-> tool_calls]

ToolMessage(content) == [type |-> "tool", content |-> content]

\* graph.invoke(...) of one request: the orchestrator node and the edge out of it
Orchestrate ==
    /\ pc = "idle"
    /\ \E role \in Roles, ticket \in TicketIds, proposed \in Drafts :
          LET r == OrchestratorNode(policy, audit, role, ticket, proposed)
          IN  /\ audit' = r.log
              /\ state' = [role |-> role, ticket_id |-> ticket, pre |-> Len(audit),
                           suggested |-> proposed.required_prereqs,
                           verdict |-> Enforce(policy, role, RouteObj(proposed.intent), "allow"),
                           routing |-> r.routing, messages |-> <<HumanMessage>>,
                           action_result |-> NoResult]
              /\ pc' = NextNode(r.routing)
    /\ loop' = LoopStart
    /\ last' = NoCall
    /\ UNCHANGED <<policy, max_tool_loops, twin>>

\* the tool calls of one proposer response, names first to last: none, or any
\* tool first and then further calls of the privileged tool
ToolCalls ==
    {<<>>} \cup {<<first>> \o [k \in 1..n |-> "reset_password"] :
                    first \in ToolNames, n \in 0..(MaxToolCalls - 1)}

\* action_agent_node._node, lines 190-202
AgentBegin ==
    /\ pc = "action_agent"
    /\ pc' = "loop"
    /\ loop' = LoopStart
    /\ UNCHANGED <<policy, audit, last, max_tool_loops, state, twin>>

\* one iteration of `for _ in range(max_tool_loops)`, lines 205-235
AgentIterate ==
    /\ pc = "loop"
    /\ ~loop.broke
    /\ loop.i < max_tool_loops
    /\ \E tool_calls \in ToolCalls :
          IF tool_calls = <<>>
          THEN /\ loop' = [loop EXCEPT !.i = @ + 1, !.broke = TRUE]
               /\ state' = [state EXCEPT !.messages = Append(@, AIMessage(tool_calls))]
               /\ UNCHANGED <<audit, last>>
          ELSE LET tool_name == tool_calls[1]
                   value == IF tool_name = "get_kb_article" THEN "VPN setup" ELSE "john"
                   tool_args == ToolParam(tool_name) :> value
                   found == tool_name \in RegisteredTools
                   w == ToolWrapper(policy, audit, state.role, tool_name, value)
                   out == IF found THEN w.out ELSE "Tool '" \o tool_name \o "' not found."
                   denied == StartsWithDenied(out)
               IN  /\ audit' = IF found THEN w.gate.log ELSE audit
                   /\ last' = IF found
                              THEN ExecCall("graph", state.role, tool_name, tool_args, w.gate)
                              ELSE last
                   /\ loop' = [i |-> loop.i + 1, broke |-> BreakAfterToolCall,
                               last_tool_used |-> tool_name, last_args |-> tool_args,
                               last_output |-> out,
                               decision |-> IF denied THEN "deny" ELSE "allow",
                               reason |-> IF denied THEN StripDenied(out)
                                          ELSE "Tool executed (policy-gated)."]
                   /\ state' = [state EXCEPT
                                   !.messages = @ \o <<AIMessage(tool_calls), ToolMessage(out)>>]
    /\ UNCHANGED <<policy, max_tool_loops, pc, twin>>

\* lines 237-256: the loop is over; summarise, log, return
AgentFinish ==
    /\ pc = "loop"
    /\ loop.broke \/ loop.i >= max_tool_loops
    /\ state' = [state EXCEPT !.action_result = Summarise(loop)]
    /\ audit' = LogEvent(audit, "action_agent",
                         [role |-> state.role, action_result |-> Summarise(loop)])
    /\ pc' = "END"
    /\ UNCHANGED <<policy, last, max_tool_loops, loop, twin>>

Next ==
    \/ SetPolicy
    \/ Orchestrate
    \/ AgentBegin
    \/ AgentIterate
    \/ AgentFinish

Spec == Init /\ [][Next]_vars

\* -------------------- the action-agent node on a log that may refuse writes

\* what a call of execute_tool_with_policy on such a log is remembered by
ExecCallIO(caller, role, tool_name, args, r) ==
    [ran |-> r.ran] @@ ExecCall(caller, role, tool_name, args, r)

\* one iteration of the loop, every log_event of the gate free to fail; an
\* exception of the gate leaves tool_fn.invoke, the node and graph.invoke
AgentIterateIO ==
    /\ pc = "loop"
    /\ ~loop.broke
    /\ loop.i < max_tool_loops
    /\ \E tool_calls \in ToolCalls, io \in WriteOutcomes :
          IF tool_calls = <<>>
          THEN /\ loop' = [loop EXCEPT !.i = @ + 1, !.broke = TRUE]
               /\ state' = [state EXCEPT !.messages = Append(@, AIMessage(tool_calls))]
               /\ UNCHANGED <<audit, last, pc>>
          ELSE LET tool_name == tool_calls[1]
                   value == IF tool_name = "get_kb_article" THEN "VPN setup" ELSE "john"
                   tool_args == ToolParam(tool_name) :> value
                   found == tool_name \in RegisteredTools
                   w == ToolWrapperIO(policy, audit, state.role, tool_name, value, io)
                   out == IF found THEN w.out ELSE "Tool '" \o tool_name \o "' not found."
                   denied == StartsWithDenied(out)
               IN  /\ audit' = IF found THEN w.gate.log ELSE audit
                   /\ last' = IF found
                              THEN ExecCallIO("graph", state.role, tool_name, tool_args,
                                              w.gate)
                              ELSE last
                   /\ IF found /\ w.gate.raised # None
                      THEN /\ pc' = "raised"
                           /\ loop' = [loop EXCEPT !.i = @ + 1]
                           /\ state' = [state EXCEPT
                                           !.messages = Append(@, AIMessage(tool_calls))]
                      ELSE /\ pc' = pc
                           /\ loop' = [i |-> loop.i + 1, broke |-> BreakAfterToolCall,
                                       last_tool_used |-> tool_name,
                                       last_args |-> tool_args, last_output |-> out,
                                       decision |-> IF denied THEN "deny" ELSE "allow",
                                       reason |-> IF denied THEN StripDenied(out)
                                                  ELSE "Tool executed (policy-gated)."]
                           /\ state' = [state EXCEPT
                                           !.messages = @ \o <<AIMessage(tool_calls),
                                                                ToolMessage(out)>>]
    /\ UNCHANGED <<policy, max_tool_loops, twin>>

\* lines 237-256 with the log_event of line 246 free to fail
AgentFinishIO ==
    /\ pc = "loop"
    /\ loop.broke \/ loop.i >= max_tool_loops
    /\ \E ok \in BOOLEAN :
          LET w == LogEventIO(audit, ok, "action_agent",
                              [role |-> state.role, action_result |-> Summarise(loop)])
          IN  /\ audit' = w.log
              /\ IF w.raised # None
                 THEN pc' = "raised" /\ state' = state
                 ELSE /\ pc' = "END"
                      /\ state' = [state EXCEPT !.action_result = Summarise(loop)]
    /\ UNCHANGED <<policy, last, max_tool_loops, loop, twin>>

\* one request in the graph while the rule table changes, the log refusing
\* writes at will once the orchestrator node has written its record
NextFaulty ==
    \/ SetPolicy
    \/ Orchestrate
    \/ AgentBegin
    \/ AgentIterateIO
    \/ AgentFinishIO

SpecFaulty == InitApp /\ [][NextFaulty]_vars

\* the execution-gate tab on a log that may refuse writes
AppExecuteToolIO ==
    /\ Len(audit) < MaxAudit
    /\ \E role \in Roles, tool_name \in ToolNames, k \in ArgKeys, io \in WriteOutcomes :
          LET args == (k :> (IF k = "query" THEN "VPN setup" ELSE "john"))
              r == ExecuteToolWithPolicyIO(policy, audit, role, tool_name, args, io)
          IN  /\ audit' = r.log
              /\ last' = ExecCallIO("app", role, tool_name, args, r)
    /\ UNCHANGED <<policy, graphVars, twin>>

NextGateFaulty ==
    \/ SetPolicy
    \/ AppExecuteToolIO

SpecGateFaulty == InitApp /\ [][NextGateFaulty]_vars

\* ------------------------------------- the orchestrator node on two drafts

\* the drafts that differ from proposed in route_to and policy_check at most
Variants(proposed) ==
    {[proposed EXCEPT !.route_to = rt, !.policy_check = pcheck] :
        rt \in Routes, pcheck \in ProposedChecks}

\* one request (role, ticket, rule table) decided on a draft and on a variant
DecideTwice ==
    /\ twin = NoTwin
    /\ \E role \in Roles, ticket \in TicketIds, proposed \in Drafts :
          \E other \in Variants(proposed) :
             twin' = [role |-> role, ticket_id |-> ticket,
                      verdict |-> Enforce(policy, role, RouteObj(proposed.intent), "allow"),
                      draft |-> proposed, variant |-> other,
                      a |-> OrchestratorNode(policy, audit, role, ticket, proposed).routing,
                      b |-> OrchestratorNode(policy, audit, role, ticket, other).routing]
    /\ UNCHANGED <<policy, audit, last, graphVars>>

NextDraft == DecideTwice

SpecDraft == InitApp /\ [][NextDraft]_vars

\* ----------------------------------------------------------------- claims

IsExec == last.fn = "execute_tool_with_policy"

IsRoute == last.fn = "orchestrate_route"

\* a request is in the graph and its orchestrator node has run
Routed == state # NoState

Count(msgs, t) == Cardinality({k \in 1..Len(msgs) : msgs[k].type = t})

\* the records the request in the graph has appended so far
OwnRecords == SubSeq(audit, state.pre + 1, Len(audit))

CountEvents(log, t) == Cardinality({k \in 1..Len(log) : log[k].event_type = t})

\* C1: a call of execute_tool_with_policy that the evaluator denies invokes no
\* tool implementation and returns executed = false, decision = deny.
C1_DenyNeverInvokes ==
    (IsExec /\ ~last.verdict) =>
        /\ last.invoked = <<>>
        /\ last.raised = None
        /\ last.result.executed = FALSE
        /\ last.result.decision = "deny"

\* a denied call for a tool that has an implementation
C1_Witness ==
    IsExec /\ ~last.verdict /\ last.tool = "reset_password" /\ last.result.decision = "deny"

\* C2: a privileged request without a ticket reference ends in a decision that
\* requires ticket_id and routes to human_service_desk, whatever the verdict, in
\* orchestrate_route and in the orchestrator node alike.
C2_NoTicketGoesToHuman ==
    /\ (IsRoute /\ last.intent = "privileged" /\ ~Truthy(last.ticket_id)) =>
          /\ last.raised = None
          /\ last.result # NoRouting
          /\ "ticket_id" \in Elems(last.result.required_prereqs)
          /\ last.result.route_to = "human_service_desk"
    /\ (Routed /\ state.routing.intent = "privileged" /\ ~Truthy(state.ticket_id)) =>
          /\ "ticket_id" \in Elems(state.routing.required_prereqs)
          /\ state.routing.route_to = "human_service_desk"

\* the orchestrator node's half of C2, on its own
C2_NodeNoTicketGoesToHuman ==
    (Routed /\ state.routing.intent = "privileged" /\ ~Truthy(state.ticket_id)) =>
        /\ "ticket_id" \in Elems(state.routing.required_prereqs)
        /\ state.routing.route_to = "human_service_desk"

\* C3: a privileged request the evaluator denies is routed to
\* human_service_desk even with a ticket, and its explanation is the
\* policy-forbids one even when the ticket is missing too.
C3_DenyBeforePrereqs ==
    /\ (IsRoute /\ last.intent = "privileged" /\ ~last.verdict) =>
          /\ last.raised = None
          /\ last.result # NoRouting
          /\ last.result.route_to = "human_service_desk"
          /\ last.result.explanation
                = "Privileged request detected. Policy does not permit this role."
    /\ (Routed /\ state.routing.intent = "privileged" /\ ~state.verdict) =>
          /\ state.routing.route_to = "human_service_desk"
          /\ state.routing.explanation
                = "Privileged request: policy does not allow automated routing for this role."

\* the orchestrator node's half of C3, on its own
C3_NodeDenyBeforePrereqs ==
    (Routed /\ state.routing.intent = "privileged" /\ ~state.verdict) =>
        /\ state.routing.route_to = "human_service_desk"
        /\ state.routing.explanation
              = "Privileged request: policy does not allow automated routing for this role."

C5_DraftNotTrusted ==
    twin # NoTwin =>
        LET check == [policy_obj |-> RouteObj(twin.draft.intent), policy_act |-> "allow",
                      allowed |-> twin.verdict, role |-> twin.role]
        IN  /\ twin.a.route_to = twin.b.route_to
            /\ twin.a.policy_check = check
            /\ twin.b.policy_check = check

\* two drafts that differ in both fields, neither carrying the gate's verdict
C5_Witness ==
    /\ twin # NoTwin
    /\ twin.draft.route_to # twin.variant.route_to
    /\ twin.draft.policy_check # twin.variant.policy_check
    /\ twin.draft.route_to # twin.a.route_to
    /\ twin.draft.policy_check.allowed # twin.verdict

\* C6: every ActionResult, of execute_tool_with_policy and of the action loop,
\* has executed => decision = allow, and decision = deny => not executed and
\* no output.
C6_ActionResultShape ==
    LET Shaped(r) == /\ r.executed => r.decision = "allow"
                     /\ r.decision = "deny" => (~r.executed /\ r.output = None)
    IN  /\ IsExec => Shaped(last.result)
        /\ (Routed /\ state.action_result # NoResult) => Shaped(state.action_result)

\* the execution gate's half of C6, on its own
C6_GateResultShape ==
    IsExec =>
        /\ last.result.executed => last.result.decision = "allow"
        /\ last.result.decision = "deny" =>
              (~last.result.executed /\ last.result.output = None)

\* C7: every call of orchestrate_route and of execute_tool_with_policy has
\* appended exactly one record of its kind when it returns.
C7_OneRecordPerCall ==
    /\ IsRoute =>
          /\ last.raised = None
          /\ Len(audit) = last.pre + 1
          /\ audit[Len(audit)].event_type = "routing_decision"
    /\ IsExec =>
          /\ last.raised = None
          /\ Len(audit) = last.pre + 1
          /\ audit[Len(audit)].event_type = "tool_execution"

\* the execution gate's half of C7, on its own
C7_GateOneRecordPerCall ==
    IsExec =>
        /\ last.raised = None
        /\ Len(audit) = last.pre + 1
        /\ audit[Len(audit)].event_type = "tool_execution"
        /\ audit[Len(audit)].payload.role = last.role
        /\ audit[Len(audit)].payload.tool = last.tool
        /\ audit[Len(audit)].payload.decision = last.result.decision

\* the tool implementation of the call takes another keyword than args carries
ToolRaises == last.tool \in RegisteredTools /\ DOMAIN last.args # {ToolParam(last.tool)}

\* C8: an allowed call whose tool implementation raises returns executed =
\* false, decision = allow, no output and the failure message in reason, and
\* its one audit record has decision = allow and the error.
C8_ToolFaultContained ==
    (IsExec /\ last.verdict /\ ToolRaises) =>
        /\ last.raised = None
        /\ last.result.executed = FALSE
        /\ last.result.decision = "allow"
        /\ last.result.output = None
        /\ Len(audit) = last.pre + 1
        /\ audit[Len(audit)].payload.decision = "allow"
        /\ "error" \in DOMAIN audit[Len(audit)].payload
        /\ last.result.reason = "Tool execution failed: " \o audit[Len(audit)].payload.error

\* get_kb_article allowed and called with username
C8_Witness ==
    /\ IsExec /\ last.verdict /\ ToolRaises
    /\ last.invoked = <<"get_kb_article">>
    /\ last.result.decision = "allow" /\ ~last.result.executed

\* C9: the action loop asks the proposer at most max_tool_loops times, asks
\* nothing after a response without tool call, and dispatches at most one
\* tool call per request.
C9_LoopBounded ==
    Routed =>
        /\ Count(state.messages, "ai") <= max_tool_loops
        /\ Count(state.messages, "tool") <= 1
        /\ CountEvents(OwnRecords, "tool_execution") <= 1
        /\ \A k \in 1..Len(state.messages) :
              /\ (state.messages[k].type = "ai" /\ state.messages[k].tool_calls = <<>>)
                    => k = Len(state.messages)
              /\ state.messages[k].type = "tool" => k = Len(state.messages)
        /\ loop.i <= max_tool_loops
        /\ loop.i = Count(state.messages, "ai")

\* a finished loop with budget 2 whose one response carried two tool calls
C9_Witness ==
    /\ Routed /\ pc = "END" /\ max_tool_loops = 2 /\ Len(state.messages) = 3
    /\ Len(state.messages[2].tool_calls) = 2
    /\ CountEvents(OwnRecords, "tool_execution") = 1

\* C10: an action loop that ends without tool call yields executed = false,
\* tool = "none", decision = deny, reason "No tool executed.", no output, and
\* leaves no tool_execution record.
C10_NoToolResult ==
    (Routed /\ pc = "END" /\ state.action_result # NoResult
            /\ Count(state.messages, "tool") = 0) =>
        /\ state.action_result = ActionResult(FALSE, "none", <<>>, "deny",
                                              "No tool executed.", None)
        /\ CountEvents(OwnRecords, "tool_execution") = 0

\* the proposer's first response has no tool call
C10_Witness ==
    /\ Routed /\ pc = "END" /\ state.action_result # NoResult
    /\ Len(state.messages) = 2 /\ state.messages[2].tool_calls = <<>>

\* the budget is 0
C10_WitnessNoBudget ==
    Routed /\ pc = "END" /\ state.action_result # NoResult /\ max_tool_loops = 0

\* the execution gate was queried in this request for the tool the loop
\* dispatched, for the role of the request, and answered allow
GateSaidAllow ==
    /\ last # NoCall
    /\ last.fn = "execute_tool_with_policy"
    /\ last.role = state.role
    /\ last.tool = loop.last_tool_used
    /\ last.verdict

\* C11: the action loop reports decision = allow / executed = true for a
\* proposed tool name, registered or not, only if in the same request the
\* evaluator was queried for (role, "tool:<name>", "execute") and answered allow.
C11_EveryToolCallGated ==
    /\ (Routed /\ loop.last_tool_used # "" /\ loop.decision = "allow") => GateSaidAllow
    /\ (Routed /\ state.action_result # NoResult /\ state.action_result.executed)
          => GateSaidAllow

\* C11 for the names that have a wrapper in build_tools
C11_RegisteredToolGated ==
    (Routed /\ loop.last_tool_used \in RegisteredTools /\ loop.decision = "allow")
        => GateSaidAllow

\* the outcome of the execution gate's last call is the verdict in force when
\* the call was made
GateFollowsVerdict ==
    /\ last.raised = None
    /\ last.result.decision = "allow" <=> last.verdict
    /\ last.invoked # <<>> => last.verdict
    /\ Len(audit) > last.pre
    /\ audit[last.pre + 1].payload.allowed = last.verdict

\* C12: no verdict is carried between gates: the outcome of every call of
\* orchestrate_route and of execute_tool_with_policy follows the verdict in
\* force at the moment of that call, also after the rule table has changed, and
\* a tool runs only if the query of its own call returned allow.
C12_NoVerdictCached ==
    /\ IsRoute =>
          /\ last.raised = None
          /\ last.result # NoRouting
          /\ last.result.policy_check.allowed = last.verdict
          /\ last.result.route_to = "action_agent" => last.verdict
    /\ IsExec => GateFollowsVerdict

\* the execution gate's half of C12, on its own
C12_GateFresh == IsExec => GateFollowsVerdict

\* C12 inside one request of the graph: the planning gate of the orchestrator
\* node and the execution gate of the action loop each follow their own query
C12_GraphFresh ==
    Routed =>
        /\ state.routing.policy_check.allowed = state.verdict
        /\ state.routing.route_to = "action_agent" => state.verdict
        /\ last # NoCall => GateFollowsVerdict

\* two calls for the same role and tool: allowed, then denied after the rule
\* was revoked
C12_WitnessRevoked ==
    /\ IsExec /\ Len(audit) = 2 /\ ~last.verdict
    /\ audit[1].payload.role = last.role /\ audit[1].payload.tool = last.tool
    /\ audit[1].payload.decision = "allow" /\ audit[2].payload.decision = "deny"

\* a request planned under allow whose tool call was denied after the rule
\* table changed in between
C12_WitnessGraphRevoked ==
    /\ Routed /\ state.verdict /\ state.routing.intent = "privileged"
    /\ last # NoCall /\ last.tool = "reset_password" /\ ~last.verdict
    /\ loop.decision = "deny"

\* C13: a request classified informational or ambiguous is routed to
\* knowledge_agent whatever the verdict, the role and the ticket reference, in
\* orchestrate_route and in the orchestrator node alike.
C13_KnowledgeAlways ==
    /\ (IsRoute /\ last.intent \in {"informational", "ambiguous"}) =>
          /\ last.raised = None
          /\ last.result # NoRouting
          /\ last.result.route_to = "knowledge_agent"
    /\ (Routed /\ state.routing.intent \in {"informational", "ambiguous"}) =>
          state.routing.route_to = "knowledge_agent"

\* the orchestrator node's half of C13, on its own
C13_NodeKnowledgeAlways ==
    (Routed /\ state.routing.intent \in {"informational", "ambiguous"}) =>
        /\ state.routing.route_to = "knowledge_agent"
        /\ pc = "END"

\* an informational request of a role the evaluator allows, with a ticket
C13_NodeWitness ==
    /\ Routed /\ state.routing.intent = "informational" /\ state.verdict
    /\ state.ticket_id = "T-100" /\ state.routing.route_to = "knowledge_agent"

\* C14: a request classified operational is routed to action_agent if and only
\* if the evaluator allows (role, "route:intent:operational", "allow"), and to
\* human_service_desk otherwise; the ticket reference has no influence.
C14_OperationalByVerdict ==
    /\ (IsRoute /\ last.intent = "operational") =>
          /\ last.raised = None
          /\ last.result # NoRouting
          /\ last.result.route_to
                = (IF last.verdict THEN "action_agent" ELSE "human_service_desk")
    /\ (Routed /\ state.routing.intent = "operational") =>
          state.routing.route_to
              = (IF state.verdict THEN "action_agent" ELSE "human_service_desk")

\* the orchestrator node's half of C14, on its own
C14_NodeOperationalByVerdict ==
    (Routed /\ state.routing.intent = "operational") =>
        /\ state.routing.policy_check.policy_obj = "route:intent:operational"
        /\ state.routing.route_to
              = (IF state.verdict THEN "action_agent" ELSE "human_service_desk")

\* an operational request without ticket that the evaluator allows, the draft
\* suggesting a prerequisite and another route
C14_NodeWitness ==
    /\ Routed /\ state.routing.intent = "operational" /\ state.verdict
    /\ ~Truthy(state.ticket_id) /\ state.suggested # <<>>
    /\ state.routing.route_to = "action_agent"

\* C15: in every final RoutingDecision, of orchestrate_route and of the
\* orchestrator node, risk_tier is risk_from_intent(intent), whatever the
\* proposer suggested.
C15_RiskFromIntent ==
    /\ IsRoute =>
          /\ last.raised = None
          /\ last.result # NoRouting
          /\ last.result.risk_tier = risk_from_intent(last.result.intent)
    /\ Routed => state.routing.risk_tier = risk_from_intent(state.routing.intent)

\* C17: two calls of orchestrate_route with the same role, prompt and ticket
\* reference under an unchanged rule table return decisions equal in every
\* field and append two records that differ in event_id and timestamp only.
C17_RouteIdempotent ==
    (twin # NoTwin /\ twin.fn = "orchestrate_route") =>
        /\ twin.a.raised = None /\ twin.b.raised = None
        /\ twin.a.result # NoRouting
        /\ twin.a.result = twin.b.result
        /\ Len(audit) = twin.pre + 2
        /\ audit[twin.pre + 1].event_type = "routing_decision"
        /\ audit[twin.pre + 1] = audit[twin.pre + 2]

\* what is left of C17 in the code: the two calls end alike
C17_SameOutcome ==
    (twin # NoTwin /\ twin.fn = "orchestrate_route") => twin.a = twin.b

\* C18: for a name without tool implementation, execute_tool_with_policy
\* under an allowing policy returns executed = true, decision = allow and the
\* "Unknown tool" text as output, raises nothing and appends one
\* tool_execution record with decision = allow; under a denying policy the
\* result is the ordinary deny.
C18_UnknownToolSoftSuccess ==
    (IsExec /\ last.tool \notin RegisteredTools) =>
        /\ last.raised = None
        /\ last.invoked = <<>>
        /\ Len(audit) = last.pre + 1
        /\ audit[Len(audit)].event_type = "tool_execution"
        /\ audit[Len(audit)].payload.tool = last.tool
        /\ IF last.verdict
           THEN /\ last.result = ActionResult(TRUE, last.tool, last.args, "allow",
                                              "Policy allowed tool execution.",
                                              "Unknown tool '" \o last.tool \o "'.")
                /\ audit[Len(audit)].payload.decision = "allow"
                /\ "error" \notin DOMAIN audit[Len(audit)].payload
           ELSE /\ last.result = ActionResult(FALSE, last.tool, last.args, "deny",
                                              "Policy denied tool execution.", None)
                /\ audit[Len(audit)].payload.decision = "deny"

\* delete_user, allowed by the rule table, reported as executed
C18_Witness ==
    /\ IsExec /\ last.tool = "delete_user" /\ last.verdict
    /\ last.result.executed /\ last.result.output = "Unknown tool 'delete_user'."

\* delete_user denied
C18_WitnessDenied ==
    IsExec /\ last.tool = "delete_user" /\ ~last.verdict /\ last.result.decision = "deny"

IsTail == last.fn = "tail_events"

\* the smaller of two numbers
Min(a, b) == IF a <= b THEN a ELSE b

\* the n most recently appended records of the log, newest last
Newest(n) == SubSeq(audit, Len(audit) - n + 1, Len(audit))

\* C19: for a log of length L and n >= 0, tail_events(n) returns the min(n, L)
\* most recently appended records in append order, the empty sequence when
\* there is no log, and no records for n = 0.
C19_TailNewest ==
    IsTail =>
        /\ last.events = Newest(Min(last.limit, Len(audit)))
        /\ ~last.exists => last.events = <<>>
        /\ last.limit = 0 => last.events = <<>>

\* C19 for n >= 1
C19_TailNewestPositive ==
    (IsTail /\ last.limit >= 1) =>
        /\ last.events = Newest(Min(last.limit, Len(audit)))
        /\ ~last.exists => last.events = <<>>

\* one record asked of a log of two
C19_WitnessPositive ==
    IsTail /\ last.limit = 1 /\ Len(audit) = 2 /\ last.events = <<audit[2]>>

\* C20: in the compiled graph the action-agent node, and with it every
\* execution-gate call, tool_execution record and action_agent record, is
\* reached only for a request routed to action_agent; a request routed
\* elsewhere ends with action_result unset and its routing_decision record as
\* its one audit record.
C20_ActionOnlyWhenRouted ==
    Routed =>
        /\ (\/ pc \in {"action_agent", "loop"}
            \/ state.action_result # NoResult
            \/ last # NoCall
            \/ Len(state.messages) > 1
            \/ CountEvents(OwnRecords, "tool_execution") > 0
            \/ CountEvents(OwnRecords, "action_agent") > 0)
              => state.routing.route_to = "action_agent"
        /\ state.routing.route_to # "action_agent" =>
              /\ pc = "END"
              /\ state.action_result = NoResult
              /\ Len(OwnRecords) = 1
              /\ OwnRecords[1].event_type = "routing_decision"

\* a request routed to human_service_desk has ended
C20_Witness ==
    /\ Routed /\ state.routing.route_to = "human_service_desk" /\ pc = "END"
    /\ state.action_result = NoResult /\ Len(OwnRecords) = 1

\* a request routed to action_agent has run the node and called the gate
C20_WitnessAction ==
    /\ Routed /\ state.routing.route_to = "action_agent" /\ pc = "END"
    /\ last # NoCall /\ CountEvents(OwnRecords, "action_agent") = 1

\* the gate was called for the tool call the loop made
GateCalled == last # NoCall /\ last.fn = "execute_tool_with_policy"

\* the request has left the action-agent node with a result
Summarised == Routed /\ pc = "END" /\ state.action_result # NoResult

\* C21: the ActionResult of the action loop agrees with the outcome of the
\* execution gate for the tool call it made: executed = true only if the gate
\* returned executed = true, and executed = false when the gate returned the
\* failure result (executed = false, decision = allow, no output).
C21_LoopAgreesWithGate ==
    (Summarised /\ GateCalled) =>
        /\ state.action_result.executed =>
              (last.result # NoResult /\ last.result.executed)
        /\ (last.result # NoResult /\ ~last.result.executed
                /\ last.result.decision = "allow" /\ last.result.output = None)
              => ~state.action_result.executed

\* C21 on a log that takes every write
C21_AgreesWhenWritable ==
    (Summarised /\ GateCalled) => state.action_result.executed = last.result.executed

\* the gate returned the failure result and the loop has summarised the call
C21_WitnessFailure ==
    /\ Summarised /\ GateCalled
    /\ last.result # NoResult /\ ~last.result.executed /\ last.result.decision = "allow"

\* the positions in the request's own records that hold a record of type t
Positions(t) == {k \in 1..Len(OwnRecords) : OwnRecords[k].event_type = t}

\* C22: the records of a request routed to action_agent are appended in
\* pipeline order: its routing_decision record first, then at most one
\* tool_execution record, then exactly one action_agent record, which is the
\* last; no tool_execution record stands before the routing_decision record.
C22_PipelineOrder ==
    (Routed /\ state.routing.route_to = "action_agent") =>
        /\ Positions("routing_decision") = {1}
        /\ Cardinality(Positions("tool_execution")) <= 1
        /\ Positions("tool_execution") \subseteq {2}
        /\ Positions("action_agent") \subseteq {Len(OwnRecords)}
        /\ \A k \in Positions("action_agent") : \A j \in Positions("tool_execution") : j < k
        /\ pc = "END" =>
              /\ Cardinality(Positions("action_agent")) = 1
              /\ Len(OwnRecords) = 2 + Cardinality(Positions("tool_execution"))
        /\ pc # "END" => Positions("action_agent") = {}

\* a finished request with all three records
C22_Witness ==
    /\ Routed /\ state.routing.route_to = "action_agent" /\ pc = "END"
    /\ Len(OwnRecords) = 3
    /\ OwnRecords[1].event_type = "routing_decision"
    /\ OwnRecords[2].event_type = "tool_execution"
    /\ OwnRecords[3].event_type = "action_agent"

\* a finished request whose loop made no tool call
C22_WitnessNoTool ==
    /\ Routed /\ state.routing.route_to = "action_agent" /\ pc = "END"
    /\ Len(OwnRecords) = 2 /\ OwnRecords[2].event_type = "action_agent"

\* the records the last call of execute_tool_with_policy has appended
CallRecords == SubSeq(audit, last.pre + 1, Len(audit))

\* C23: execute_tool_with_policy returns executed = false only if the tool
\* implementation did not run to completion: when the tool ran and the audit
\* append after it fails, the call does not return executed = false with
\* decision = allow, and appends no error record for the call.
C23_FailedOnlyIfToolFailed ==
    (IsExec /\ last.raised = None) =>
        /\ ~last.result.executed => ~last.ran
        /\ last.ran =>
              /\ ~(~last.result.executed /\ last.result.decision = "allow")
              /\ \A k \in 1..Len(CallRecords) : "error" \notin DOMAIN CallRecords[k].payload

\* where the code departs from C23, the write of line 59 was refused: the one
\* record of the call is the error record that names the write error
C23_OnlyAfterRefusedWrite ==
    (IsExec /\ last.raised = None /\ last.ran /\ ~last.result.executed) =>
        /\ last.result.decision = "allow"
        /\ last.result.reason = "Tool execution failed: " \o WriteError
        /\ Len(CallRecords) = 1
        /\ CallRecords[1].payload.error = WriteError

\* the tool ran, the write of its record was refused, the call returned
C23_WitnessRefusedWrite ==
    /\ IsExec /\ last.raised = None /\ last.ran /\ ~last.result.executed
    /\ last.invoked = <<"reset_password">>

\* both writes refused: the call raises and leaves no record of the tool run
C23_WitnessRaised ==
    IsExec /\ last.raised = WriteError /\ last.ran /\ Len(audit) = last.pre

IsClassify == last.fn = "classify_intent"

\* the text of the last classify_intent call, lower-cased and stripped
Text == Normalise(last.prompt)

HasPrivileged == \E ptn \in PRIVILEGED_PATTERNS : MatchesInOrder(Text, ptn[1], ptn[2])

HasInformational == \E ptn \in INFO_PATTERNS : MatchesPhrase(Text, ptn)

HasOperational == \E w \in OPERATIONAL_WORDS : MatchesWord(Text, w)

\* C16: classify_intent always returns an intent, and the first matching
\* group wins: privileged over informational and operational, informational
\* over operational, and ambiguous when nothing matches.
C16_FirstGroupWins ==
    IsClassify =>
        /\ last.intent \in Intents
        /\ HasPrivileged => last.intent = "privileged"
        /\ (~HasPrivileged /\ HasInformational) => last.intent = "informational"
        /\ (~HasPrivileged /\ ~HasInformational /\ HasOperational)
              => last.intent = "operational"
        /\ (~HasPrivileged /\ ~HasInformational /\ ~HasOperational)
              => last.intent = "ambiguous"

\* a text that matches a pattern of every group
C16_Witness ==
    /\ IsClassify /\ HasPrivileged /\ HasInformational /\ HasOperational
    /\ last.intent = "privileged"

\* "create" and "admin" on two lines: no privileged pattern matches, the
\* operational heuristic does
C16_WitnessLineBreak ==
    /\ IsClassify /\ last.prompt = <<"create", NL, "admin">> /\ ~HasPrivileged
    /\ HasOperational /\ last.intent = "operational"

====
